---- MODULE Spec2Model ----
(***************************************************************************)
(* Model of SettingsActivity (src/activities/settings/SettingsActivity.cpp) *)
(* of crosspoint-reader: the settings screen's navigation state machine,   *)
(* the value mutator, the action dispatcher, and the display task that     *)
(* redraws the screen concurrently with the logic thread.                  *)
(*                                                                         *)
(* Two threads are modelled.  The logic thread runs loop() once per input  *)
(* cycle (and onExit() after Back); its position is pc, whose labels are   *)
(* source line numbers.  The display task runs displayTaskLoop(); its      *)
(* position is displayTask.  Each action is one access to state the other  *)
(* thread can see, so that every interleaving of the two is explored.      *)
(***************************************************************************)
EXTENDS Integers, Sequences, FiniteSets, TLC

(***************************************************************************)
(* Bounds of the exploration.                                              *)
(***************************************************************************)
\* saveToFile calls allowed in one run of the whole screen (Spec)
MaxSaves == 1
\* directional buttons (Up, Down, Left, Right) released in one input cycle
MaxReleased == 1
\* confirmations allowed in one run of the confirm-only specification
MaxConfirms == 6
\* hypothetical Enum descriptors have 1..MaxLabels labels
MaxLabels == 4
\* hypothetical Value descriptors have min, max in 0..MaxRange
MaxRange == 5
\* hypothetical Value descriptors have step in 1..MaxStep
MaxStep == 3

(***************************************************************************)
(* Program constants.                                                      *)
(***************************************************************************)
changeTabsMs == 700
categoryCount == 4
displaySettingsCount == 7
readerSettingsCount == 9
controlsSettingsCount == 4
systemSettingsCount == 5

categoryNames == <<"Display", "Reader", "Controls", "System">>

(***************************************************************************)
(* Setting descriptors.  valuePtr names the bound field of the settings    *)
(* store ("nullptr" when absent); enumValues is the sequence of labels.    *)
(***************************************************************************)
NoRange == [min |-> 0, max |-> 0, step |-> 0]

Toggle(name, ptr) ==
    [name |-> name, type |-> "TOGGLE", valuePtr |-> ptr,
     enumValues |-> <<>>, valueRange |-> NoRange]

Enum(name, ptr, labels) ==
    [name |-> name, type |-> "ENUM", valuePtr |-> ptr,
     enumValues |-> labels, valueRange |-> NoRange]

Value(name, ptr, range) ==
    [name |-> name, type |-> "VALUE", valuePtr |-> ptr,
     enumValues |-> <<>>, valueRange |-> range]

Action(name) ==
    [name |-> name, type |-> "ACTION", valuePtr |-> "nullptr",
     enumValues |-> <<>>, valueRange |-> NoRange]

displaySettings == <<
    Enum("Sleep Screen", "sleepScreen",
         <<"Dark", "Light", "Custom", "Cover", "None", "Cover + Custom">>),
    Enum("Sleep Screen Cover Mode", "sleepScreenCoverMode", <<"Fit", "Crop">>),
    Enum("Sleep Screen Cover Filter", "sleepScreenCoverFilter",
         <<"None", "Contrast", "Inverted">>),
    Enum("Status Bar", "statusBar",
         <<"None", "No Progress", "Full w/ Percentage", "Full w/ Progress Bar",
           "Progress Bar">>),
    Enum("Hide Battery %", "hideBatteryPercentage",
         <<"Never", "In Reader", "Always">>),
    Enum("Refresh Frequency", "refreshFrequency",
         <<"1 page", "5 pages", "10 pages", "15 pages", "30 pages">>),
    Enum("UI Theme", "uiTheme", <<"Classic", "Lyra">>) >>

readerSettings == <<
    Enum("Font Family", "fontFamily", <<"Bookerly", "Noto Sans", "Open Dyslexic">>),
    Enum("Font Size", "fontSize", <<"Small", "Medium", "Large", "X Large">>),
    Enum("Line Spacing", "lineSpacing", <<"Tight", "Normal", "Wide">>),
    Value("Screen Margin", "screenMargin", [min |-> 5, max |-> 40, step |-> 5]),
    Enum("Paragraph Alignment", "paragraphAlignment",
         <<"Justify", "Left", "Center", "Right">>),
    Toggle("Hyphenation", "hyphenationEnabled"),
    Enum("Reading Orientation", "orientation",
         <<"Portrait", "Landscape CW", "Inverted", "Landscape CCW">>),
    Toggle("Extra Paragraph Spacing", "extraParagraphSpacing"),
    Toggle("Text Anti-Aliasing", "textAntiAliasing") >>

controlsSettings == <<
    Action("Remap Front Buttons"),
    Enum("Side Button Layout (reader)", "sideButtonLayout",
         <<"Prev, Next", "Next, Prev">>),
    Toggle("Long-press Chapter Skip", "longPressChapterSkip"),
    Enum("Short Power Button Click", "shortPwrBtn",
         <<"Ignore", "Sleep", "Page Turn">>) >>

systemSettings == <<
    Enum("Time to Sleep", "sleepTimeout",
         <<"1 min", "5 min", "10 min", "15 min", "30 min">>),
    Action("KOReader Sync"),
    Action("OPDS Browser"),
    Action("Clear Cache"),
    Action("Check for updates") >>

\* the array and count that the switch of loop() binds for a category index
CategoryList(c) ==
    CASE c = 0 -> displaySettings
      [] c = 1 -> readerSettings
      [] c = 2 -> controlsSettings
      [] c = 3 -> systemSettings

CategoryCount(c) ==
    CASE c = 0 -> displaySettingsCount
      [] c = 1 -> readerSettingsCount
      [] c = 2 -> controlsSettingsCount
      [] c = 3 -> systemSettingsCount

\* the table and count a build binds for category c: those of lines 20-64,
\* or an empty table with count 0 for a category in `empty'
BuiltList(c, empty) == IF c \in empty THEN <<>> ELSE CategoryList(c)
BuiltCount(c, empty) == IF c \in empty THEN 0 ELSE CategoryCount(c)

AllDescriptors ==
    {CategoryList(c)[i] : c \in {0}, i \in 1..displaySettingsCount}
    \cup {CategoryList(c)[i] : c \in {1}, i \in 1..readerSettingsCount}
    \cup {CategoryList(c)[i] : c \in {2}, i \in 1..controlsSettingsCount}
    \cup {CategoryList(c)[i] : c \in {3}, i \in 1..systemSettingsCount}

\* the fields of the settings store that descriptors are bound to
Fields == {d.valuePtr : d \in {e \in AllDescriptors : e.valuePtr # "nullptr"}}

DescriptorOf(f) == CHOOSE d \in AllDescriptors : d.valuePtr = f

\* the values a bound field may validly hold
ValidValues(d) ==
    CASE d.type = "TOGGLE" -> {0, 1}
      [] d.type = "ENUM" -> 0..(Len(d.enumValues) - 1)
      [] d.type = "VALUE" -> d.valueRange.min..d.valueRange.max
      [] OTHER -> {}


Min(S) == CHOOSE x \in S : \A y \in S : x <= y

\* a settings store the screen may be entered with: every field at its
\* smallest valid value
LowSettings == [f \in Fields |-> Min(ValidValues(DescriptorOf(f)))]

(***************************************************************************)
(* Input of one cycle: what mappedInput reports until the next sampling.   *)
(***************************************************************************)
HeldTimes == {changeTabsMs, changeTabsMs + 1}

AllInputs ==
    [confirm : BOOLEAN, back : BOOLEAN, up : BOOLEAN, down : BOOLEAN,
     left : BOOLEAN, right : BOOLEAN, heldTime : HeldTimes]

Released(inp) ==
    Cardinality({b \in {"up", "down", "left", "right"} : inp[b]})

Inputs == {inp \in AllInputs : Released(inp) <= MaxReleased}

NoInput ==
    [confirm |-> FALSE, back |-> FALSE, up |-> FALSE, down |-> FALSE,
     left |-> FALSE, right |-> FALSE, heldTime |-> 0]

VARIABLES
    selectedCategoryIndex,  \* 0..categoryCount-1
    selectedSettingIndex,   \* 0 = tab row, i = i-th setting of the list
    settingsList,           \* the descriptor array settingsList points to
    settingsCount,
    updateRequired,         \* redraw-pending flag
    subActivity,            \* "none" or the class of the active sub-screen
    renderingMutex,         \* "free", its holder "loop"/"display", or "deleted"
    displayTask,            \* position of displayTaskLoop, or "deleted"
    SETTINGS,               \* the settings store: field -> value
    saveCount,              \* number of SETTINGS.saveToFile() calls so far
    mappedInput,            \* input events of the current cycle
    hasChangedCategory,     \* local of loop()
    pc,                     \* position of the logic thread
    confirmations,          \* cycles begun with Confirm on a focused item
    loaded,                 \* the store as it was when the screen was entered
    entry,                  \* navigation state and store at the cycle's start
    emptyTables,            \* categories whose table is built with no descriptor
                            \* ({} for the tables of lines 20-64)
    awaiting,               \* a sub-screen has completed and no render() pass
                            \* has run since
    stale                   \* a rendered variable changed after the last render()
                            \* pass (or nothing was drawn yet): the display is out of date

vars ==
    <<selectedCategoryIndex, selectedSettingIndex, settingsList, settingsCount,
      updateRequired, subActivity, renderingMutex, displayTask, SETTINGS,
      saveCount, mappedInput, hasChangedCategory, pc, confirmations, loaded,
      entry, emptyTables, awaiting, stale>>

navVars ==
    <<selectedCategoryIndex, selectedSettingIndex, settingsList, settingsCount>>

ghostVars == <<confirmations, loaded, entry, emptyTables, awaiting>>

NoEntry == [active |-> FALSE]

EntryState ==
    [active |-> TRUE,
     selectedCategoryIndex |-> selectedCategoryIndex,
     selectedSettingIndex |-> selectedSettingIndex,
     settingsList |-> settingsList,
     settingsCount |-> settingsCount,
     SETTINGS |-> SETTINGS,
     saveCount |-> saveCount,
     subActivity |-> subActivity]

\* what render() reads: lines 277-303
rendered == <<navVars, SETTINGS>>

\* a step of the logic thread that changes what render() reads makes the
\* display out of date
Touch == stale' = (stale \/ rendered' # rendered)

(***************************************************************************)
(* onEnter(), lines 72-93.                                                 *)
(***************************************************************************)
Init ==
    /\ selectedCategoryIndex = 0
    /\ selectedSettingIndex = 0
    /\ settingsList = displaySettings
    /\ settingsCount = displaySettingsCount
    /\ updateRequired = TRUE
    /\ subActivity = "none"
    /\ renderingMutex = "free"
    /\ displayTask = "L255"
    /\ SETTINGS = LowSettings
    /\ loaded = SETTINGS
    /\ saveCount = 0
    /\ confirmations = 0
    /\ mappedInput = NoInput
    /\ hasChangedCategory = FALSE
    /\ pc = "idle"
    /\ entry = NoEntry
    /\ emptyTables = {}
    /\ awaiting = FALSE
    /\ stale = TRUE

(***************************************************************************)
(* Value Mutator: lines 190-203 of toggleCurrentSetting().                 *)
(***************************************************************************)
ToUint8(n) == n % 256
ToInt8(n) == IF n % 256 >= 128 THEN (n % 256) - 256 ELSE n % 256

\* variant of line 193 that stores true whatever was read
ToggleSetsTrue(currentValue) == 1

\* lines 192-193: currentValue read as bool, its negation stored
ToggleNext(currentValue) == IF currentValue # 0 THEN 0 ELSE 1

\* variant of line 196 with the modulus one too large
EnumNextOffByOne(setting, currentValue) ==
    (currentValue + 1) % (ToUint8(Len(setting.enumValues)) + 1)

\* lines 195-196
EnumNext(setting, currentValue) ==
    (currentValue + 1) % ToUint8(Len(setting.enumValues))

\* variant of line 199 with >= for >: max itself would never be stored
ValueNextWrapsAtMax(setting, currentValue) ==
    IF ToInt8(currentValue) + setting.valueRange.step >= setting.valueRange.max
    THEN setting.valueRange.min
    ELSE ToUint8(ToInt8(currentValue) + setting.valueRange.step)

\* lines 198-203: currentValue is read as int8_t
ValueNext(setting, currentValue) ==
    IF ToInt8(currentValue) + setting.valueRange.step > setting.valueRange.max
    THEN setting.valueRange.min
    ELSE ToUint8(ToInt8(currentValue) + setting.valueRange.step)

Bound(setting) ==
    /\ setting.type \in {"TOGGLE", "ENUM", "VALUE"}
    /\ setting.valuePtr # "nullptr"

NextValue(setting, currentValue) ==
    CASE setting.type = "TOGGLE" -> ToggleNext(currentValue)
      [] setting.type = "ENUM" -> EnumNext(setting, currentValue)
      [] setting.type = "VALUE" -> ValueNext(setting, currentValue)

(***************************************************************************)
(* Action Dispatcher: the strcmp chain of lines 205-245.                   *)
(***************************************************************************)
KnownActions ==
    {"Remap Front Buttons", "KOReader Sync", "OPDS Browser", "Clear Cache",
     "Check for updates"}

SubActivityFor(name) ==
    CASE name = "Remap Front Buttons" -> "ButtonRemapActivity"
      [] name = "KOReader Sync" -> "KOReaderSettingsActivity"
      [] name = "OPDS Browser" -> "CalibreSettingsActivity"
      [] name = "Clear Cache" -> "ClearCacheActivity"
      [] name = "Check for updates" -> "OtaUpdateActivity"

(***************************************************************************)
(* loop(), lines 110-180.                                                  *)
(***************************************************************************)
NextCategory(c) == IF c < categoryCount - 1 THEN c + 1 ELSE 0
PrevCategory(c) == IF c > 0 THEN c - 1 ELSE categoryCount - 1

\* variant of line 140 with >= for >: a release at exactly 700 ms would
\* change the tab
changeTabAtThreshold == mappedInput.heldTime >= changeTabsMs

\* line 140
changeTab == mappedInput.heldTime > changeTabsMs

\* lines 111, 115-118: a cycle of this screen begins with the input events
\* sampled for it
LoopBegin(inp) ==
    /\ pc = "idle"
    /\ subActivity = "none"
    /\ mappedInput' = inp
    /\ hasChangedCategory' = FALSE
    /\ pc' = IF inp.confirm THEN "L118" ELSE "L130"
    /\ entry' = EntryState
    /\ confirmations' =
         IF inp.confirm /\ selectedSettingIndex # 0
         THEN confirmations + 1 ELSE confirmations
    /\ UNCHANGED <<navVars, updateRequired, subActivity, renderingMutex,
                   displayTask, SETTINGS, saveCount, loaded, emptyTables,
                   awaiting, stale>>

\* lines 118-121: Confirm on the tab row
ConfirmTab ==
    /\ pc = "L118"
    /\ selectedSettingIndex = 0
    /\ selectedCategoryIndex' = NextCategory(selectedCategoryIndex)
    /\ hasChangedCategory' = TRUE
    /\ pc' = "L122"
    /\ UNCHANGED <<selectedSettingIndex, settingsList, settingsCount,
                   updateRequired, subActivity, renderingMutex, displayTask,
                   SETTINGS, saveCount, mappedInput, ghostVars>>
    /\ Touch

\* line 122; no return follows, so the cycle goes on to line 130
ConfirmTabUpdate ==
    /\ pc = "L122"
    /\ updateRequired' = TRUE
    /\ pc' = "L130"
    /\ UNCHANGED <<navVars, subActivity, renderingMutex, displayTask, SETTINGS,
                   saveCount, mappedInput, hasChangedCategory, ghostVars, stale>>

\* lines 118, 124 and toggleCurrentSetting() up to its first effect
\* (lines 183-205): the bounds check, the value mutation, the dispatch
\* variant of line 184 with > for >=: one index past the last is let through
InvalidIndexOffByOne(selectedSetting, count) ==
    selectedSetting < 0 \/ selectedSetting > count

\* line 184
InvalidIndex(selectedSetting, count) ==
    selectedSetting < 0 \/ selectedSetting >= count

ConfirmItem ==
    /\ pc = "L118"
    /\ selectedSettingIndex # 0
    /\ LET selectedSetting == selectedSettingIndex - 1
           setting == settingsList[selectedSetting + 1]
       IN  IF InvalidIndex(selectedSetting, settingsCount)
           THEN /\ pc' = "L125"
                /\ UNCHANGED SETTINGS
           ELSE IF Bound(setting)
           THEN /\ SETTINGS' =
                     [SETTINGS EXCEPT ![setting.valuePtr] = NextValue(setting, @)]
                /\ pc' = "L250"
           ELSE IF setting.type = "ACTION"
           THEN /\ pc' = IF setting.name \in KnownActions THEN "L206" ELSE "L250"
                /\ UNCHANGED SETTINGS
           ELSE /\ pc' = "L125"
                /\ UNCHANGED SETTINGS
    /\ UNCHANGED <<navVars, updateRequired, subActivity, renderingMutex,
                   displayTask, saveCount, mappedInput, hasChangedCategory,
                   ghostVars>>
    /\ Touch

\* xSemaphoreTake of an action launch (lines 206, 214, 222, 230, 238)
ActionTake ==
    /\ pc = "L206"
    /\ renderingMutex = "free"
    /\ renderingMutex' = "loop"
    /\ pc' = "L207"
    /\ UNCHANGED <<navVars, updateRequired, subActivity, displayTask, SETTINGS,
                   saveCount, mappedInput, hasChangedCategory, ghostVars, stale>>

\* exitActivity(); enterNewActivity(...) (lines 207-211 and the like)
ActionEnter ==
    /\ pc = "L207"
    /\ subActivity' = SubActivityFor(settingsList[selectedSettingIndex].name)
    /\ pc' = "L212"
    /\ UNCHANGED <<navVars, updateRequired, renderingMutex, displayTask,
                   SETTINGS, saveCount, mappedInput, hasChangedCategory,
                   ghostVars, stale>>

\* xSemaphoreGive of an action launch (lines 212, 220, 228, 236, 244)
ActionGive ==
    /\ pc = "L212"
    /\ renderingMutex' = "free"
    /\ pc' = "L250"
    /\ UNCHANGED <<navVars, updateRequired, subActivity, displayTask, SETTINGS,
                   saveCount, mappedInput, hasChangedCategory, ghostVars, stale>>

\* variant of toggleCurrentSetting() whose VALUE branch returns before
\* line 250
SaveSkippedForValue ==
    /\ pc = "L250"
    /\ saveCount' =
         IF settingsList[selectedSettingIndex].type = "VALUE"
         THEN saveCount ELSE saveCount + 1
    /\ pc' = "L125"
    /\ UNCHANGED <<navVars, updateRequired, subActivity, renderingMutex,
                   displayTask, SETTINGS, mappedInput, hasChangedCategory,
                   ghostVars, stale>>

\* line 250
SaveToFile ==
    /\ pc = "L250"
    /\ saveCount' = saveCount + 1
    /\ pc' = "L125"
    /\ UNCHANGED <<navVars, updateRequired, subActivity, renderingMutex,
                   displayTask, SETTINGS, mappedInput, hasChangedCategory,
                   ghostVars, stale>>

\* lines 125-126
\* variant of lines 125-126 without the return: the cycle goes on to the
\* Back test of line 130
ConfirmItemUpdateNoReturn ==
    /\ pc = "L125"
    /\ updateRequired' = TRUE
    /\ pc' = "L130"
    /\ UNCHANGED <<navVars, subActivity, renderingMutex, displayTask, SETTINGS,
                   saveCount, mappedInput, hasChangedCategory, ghostVars, stale>>

ConfirmItemUpdate ==
    /\ pc = "L125"
    /\ updateRequired' = TRUE
    /\ pc' = "L180"
    /\ UNCHANGED <<navVars, subActivity, renderingMutex, displayTask, SETTINGS,
                   saveCount, mappedInput, hasChangedCategory, ghostVars, stale>>

\* variant of the Back branch that calls onGoHome() without line 131
BackWithoutSave ==
    /\ pc = "L130"
    /\ mappedInput.back
    /\ pc' = "L132"
    /\ UNCHANGED <<navVars, updateRequired, subActivity, renderingMutex,
                   displayTask, SETTINGS, saveCount, mappedInput,
                   hasChangedCategory, ghostVars, stale>>

\* lines 130-131
BackSave ==
    /\ pc = "L130"
    /\ mappedInput.back
    /\ saveCount' = saveCount + 1
    /\ pc' = "L132"
    /\ UNCHANGED <<navVars, updateRequired, subActivity, renderingMutex,
                   displayTask, SETTINGS, mappedInput, hasChangedCategory,
                   ghostVars, stale>>

\* lines 132-133: onGoHome() makes the owner exit this screen (onExit, whose
\* base-class call of line 96 finds no sub-screen)
GoHome ==
    /\ pc = "L132"
    /\ pc' = "L99"
    /\ UNCHANGED <<navVars, updateRequired, subActivity, renderingMutex,
                   displayTask, SETTINGS, saveCount, mappedInput,
                   hasChangedCategory, ghostVars, stale>>

\* lines 136-150: the held Up/Down gesture
ChangeTab ==
    /\ pc = "L130"
    /\ ~mappedInput.back
    /\ (mappedInput.up /\ changeTab) \/ (mappedInput.down /\ changeTab)
    /\ selectedCategoryIndex' =
         IF mappedInput.up /\ changeTab
         THEN PrevCategory(selectedCategoryIndex)
         ELSE NextCategory(selectedCategoryIndex)
    /\ hasChangedCategory' = TRUE
    /\ pc' = "L146"
    /\ UNCHANGED <<selectedSettingIndex, settingsList, settingsCount,
                   updateRequired, subActivity, renderingMutex, displayTask,
                   SETTINGS, saveCount, mappedInput, ghostVars>>
    /\ Touch

\* variant of line 152 wrapping to count - 1: a ring of size count
IndexBackwardShortRing(i, count) == IF i > 0 THEN i - 1 ELSE count - 1

\* lines 152 and 155
IndexBackward(i, count) == IF i > 0 THEN i - 1 ELSE count
IndexForward(i, count) == IF i < count THEN i + 1 ELSE 0

\* lines 136-143, 147, 151-155: plain item navigation
NavigateItem ==
    /\ pc = "L130"
    /\ ~mappedInput.back
    /\ ~(mappedInput.up /\ changeTab)
    /\ ~(mappedInput.down /\ changeTab)
    /\ mappedInput.up \/ mappedInput.left \/ mappedInput.right \/ mappedInput.down
    /\ selectedSettingIndex' =
         IF mappedInput.up \/ mappedInput.left
         THEN IndexBackward(selectedSettingIndex, settingsCount)
         ELSE IndexForward(selectedSettingIndex, settingsCount)
    /\ pc' = "L153"
    /\ UNCHANGED <<selectedCategoryIndex, settingsList, settingsCount,
                   updateRequired, subActivity, renderingMutex, displayTask,
                   SETTINGS, saveCount, mappedInput, hasChangedCategory,
                   ghostVars>>
    /\ Touch

\* lines 146, 150, 153, 156
\* variant of the navigation chain that persists the store after each move
NavigationUpdateSaves ==
    /\ pc \in {"L146", "L153"}
    /\ updateRequired' = TRUE
    /\ saveCount' = saveCount + 1
    /\ pc' = IF hasChangedCategory THEN "L160" ELSE "L180"
    /\ UNCHANGED <<navVars, subActivity, renderingMutex, displayTask, SETTINGS,
                   mappedInput, hasChangedCategory, ghostVars, stale>>

NavigationUpdate ==
    /\ pc \in {"L146", "L153"}
    /\ updateRequired' = TRUE
    /\ pc' = IF hasChangedCategory THEN "L160" ELSE "L180"
    /\ UNCHANGED <<navVars, subActivity, renderingMutex, displayTask, SETTINGS,
                   saveCount, mappedInput, hasChangedCategory, ghostVars, stale>>

\* lines 136-157 when no branch of the navigation chain is taken
NoNavigation ==
    /\ pc = "L130"
    /\ ~mappedInput.back
    /\ ~(mappedInput.up \/ mappedInput.left \/ mappedInput.right \/ mappedInput.down)
    /\ pc' = IF hasChangedCategory THEN "L160" ELSE "L180"
    /\ UNCHANGED <<navVars, updateRequired, subActivity, renderingMutex,
                   displayTask, SETTINGS, saveCount, mappedInput,
                   hasChangedCategory, ghostVars, stale>>

\* lines 159-160
ResetIndex ==
    /\ pc = "L160"
    /\ selectedSettingIndex' = IF selectedSettingIndex = 0 THEN 0 ELSE 1
    /\ pc' = "L163"
    /\ UNCHANGED <<selectedCategoryIndex, settingsList, settingsCount,
                   updateRequired, subActivity, renderingMutex, displayTask,
                   SETTINGS, saveCount, mappedInput, hasChangedCategory,
                   ghostVars>>
    /\ Touch

\* lines 161-163, 167, 171, 175
BindList ==
    /\ pc = "L163"
    /\ settingsList' = BuiltList(selectedCategoryIndex, emptyTables)
    /\ pc' = "L164"
    /\ UNCHANGED <<selectedCategoryIndex, selectedSettingIndex, settingsCount,
                   updateRequired, subActivity, renderingMutex, displayTask,
                   SETTINGS, saveCount, mappedInput, hasChangedCategory,
                   ghostVars>>
    /\ Touch

\* lines 164, 168, 172, 176
BindCount ==
    /\ pc = "L164"
    /\ settingsCount' = BuiltCount(selectedCategoryIndex, emptyTables)
    /\ pc' = "L180"
    /\ UNCHANGED <<selectedCategoryIndex, selectedSettingIndex, settingsList,
                   updateRequired, subActivity, renderingMutex, displayTask,
                   SETTINGS, saveCount, mappedInput, hasChangedCategory,
                   ghostVars>>
    /\ Touch

\* line 180 (and the return of line 126): the cycle is over
LoopEnd ==
    /\ pc = "L180"
    /\ pc' = "idle"
    /\ mappedInput' = NoInput
    /\ hasChangedCategory' = FALSE
    /\ entry' = NoEntry
    /\ UNCHANGED <<navVars, updateRequired, subActivity, renderingMutex,
                   displayTask, SETTINGS, saveCount, confirmations, loaded,
                   emptyTables, awaiting, stale>>

(***************************************************************************)
(* A cycle while a sub-screen is active (lines 111-113) runs the           *)
(* sub-screen's loop, which at some cycle invokes the completion callback  *)
(* it was given (lines 208-211 and the like).                              *)
(***************************************************************************)
CallbackExit ==
    /\ pc = "idle"
    /\ subActivity # "none"
    /\ subActivity' = "none"
    /\ pc' = "L210"
    /\ awaiting' = TRUE
    /\ UNCHANGED <<navVars, updateRequired, renderingMutex, displayTask,
                   SETTINGS, saveCount, mappedInput, hasChangedCategory,
                   confirmations, loaded, entry, emptyTables, stale>>

\* variant of the completion callback without `updateRequired = true'
CallbackWithoutUpdate ==
    /\ pc = "L210"
    /\ pc' = "idle"
    /\ UNCHANGED <<navVars, updateRequired, subActivity, renderingMutex,
                   displayTask, SETTINGS, saveCount, mappedInput,
                   hasChangedCategory, ghostVars, stale>>

CallbackUpdate ==
    /\ pc = "L210"
    /\ updateRequired' = TRUE
    /\ pc' = "idle"
    /\ UNCHANGED <<navVars, subActivity, renderingMutex, displayTask, SETTINGS,
                   saveCount, mappedInput, hasChangedCategory, ghostVars, stale>>

(***************************************************************************)
(* onExit(), lines 95-108.                                                 *)
(***************************************************************************)
\* variant of onExit() that goes on to delete the task without line 99
ExitWithoutTake ==
    /\ pc = "L99"
    /\ pc' = "L100"
    /\ UNCHANGED <<navVars, updateRequired, subActivity, renderingMutex,
                   displayTask, SETTINGS, saveCount, mappedInput,
                   hasChangedCategory, ghostVars, stale>>

\* line 99
ExitTake ==
    /\ pc = "L99"
    /\ renderingMutex = "free"
    /\ renderingMutex' = "loop"
    /\ pc' = "L100"
    /\ UNCHANGED <<navVars, updateRequired, subActivity, displayTask, SETTINGS,
                   saveCount, mappedInput, hasChangedCategory, ghostVars, stale>>

\* lines 100-103
ExitDeleteTask ==
    /\ pc = "L100"
    /\ displayTask' = "deleted"
    /\ pc' = "L104"
    /\ UNCHANGED <<navVars, updateRequired, subActivity, renderingMutex,
                   SETTINGS, saveCount, mappedInput, hasChangedCategory,
                   ghostVars, stale>>

\* lines 104-105
ExitDeleteMutex ==
    /\ pc = "L104"
    /\ renderingMutex' = "deleted"
    /\ pc' = "exited"
    /\ UNCHANGED <<navVars, updateRequired, subActivity, displayTask, SETTINGS,
                   saveCount, mappedInput, hasChangedCategory, ghostVars, stale>>

(***************************************************************************)
(* displayTaskLoop(), lines 253-263.  A pass whose test of line 255 fails  *)
(* changes nothing and is a stuttering step.                               *)
(***************************************************************************)
DisplayTest ==
    /\ displayTask = "L255"
    /\ updateRequired /\ subActivity = "none"
    /\ displayTask' = "L256"
    /\ UNCHANGED <<navVars, updateRequired, subActivity, renderingMutex,
                   SETTINGS, saveCount, mappedInput, hasChangedCategory, pc,
                   ghostVars, stale>>

DisplayClear ==
    /\ displayTask = "L256"
    /\ updateRequired' = FALSE
    /\ displayTask' = "L257"
    /\ UNCHANGED <<navVars, subActivity, renderingMutex, SETTINGS, saveCount,
                   mappedInput, hasChangedCategory, pc, ghostVars, stale>>

DisplayTake ==
    /\ displayTask = "L257"
    /\ renderingMutex = "free"
    /\ renderingMutex' = "display"
    /\ displayTask' = "L258"
    /\ UNCHANGED <<navVars, updateRequired, subActivity, SETTINGS, saveCount,
                   mappedInput, hasChangedCategory, pc, ghostVars, stale>>

\* line 258: render(), lines 265-316
Render ==
    /\ displayTask = "L258"
    /\ stale' = FALSE
    /\ awaiting' = FALSE
    /\ displayTask' = "L259"
    /\ UNCHANGED <<navVars, updateRequired, subActivity, renderingMutex,
                   SETTINGS, saveCount, mappedInput, hasChangedCategory, pc,
                   confirmations, loaded, entry, emptyTables>>

\* variant of displayTaskLoop without the xSemaphoreGive of line 259
DisplayWithoutGive ==
    /\ displayTask = "L259"
    /\ displayTask' = "L255"
    /\ UNCHANGED <<navVars, updateRequired, subActivity, renderingMutex,
                   SETTINGS, saveCount, mappedInput, hasChangedCategory, pc,
                   ghostVars, stale>>

DisplayGive ==
    /\ displayTask = "L259"
    /\ renderingMutex' = "free"
    /\ displayTask' = "L255"
    /\ UNCHANGED <<navVars, updateRequired, subActivity, SETTINGS, saveCount,
                   mappedInput, hasChangedCategory, pc, ghostVars, stale>>

(***************************************************************************)
(* The whole screen: both threads, every input.                            *)
(***************************************************************************)
Cycle == \E inp \in Inputs : saveCount < MaxSaves /\ LoopBegin(inp)

Next ==
    \/ Cycle
    \/ ConfirmTab
    \/ ConfirmTabUpdate
    \/ ConfirmItem
    \/ ActionTake
    \/ ActionEnter
    \/ ActionGive
    \/ SaveToFile
    \/ ConfirmItemUpdate
    \/ BackSave
    \/ GoHome
    \/ ChangeTab
    \/ NavigateItem
    \/ NavigationUpdate
    \/ NoNavigation
    \/ ResetIndex
    \/ BindList
    \/ BindCount
    \/ LoopEnd
    \/ CallbackExit
    \/ CallbackUpdate
    \/ ExitTake
    \/ ExitDeleteTask
    \/ ExitDeleteMutex
    \/ DisplayTest
    \/ DisplayClear
    \/ DisplayTake
    \/ Render
    \/ DisplayGive

Spec == Init /\ [][Next]_vars

(***************************************************************************)
(* Confirmations only: the screen is entered, focus is on a bound          *)
(* Toggle/Enum/Value item with any valid stored value, and every cycle is  *)
(* a Confirm press.  Besides the descriptors of the four tables, the       *)
(* focused descriptor ranges over Enum and Value descriptors that the      *)
(* tables could hold (any label count, any range), so that the Value       *)
(* Mutator is exercised on more than the one Value range of the tables.    *)
(***************************************************************************)
HypotheticalEnums ==
    {Enum("Enum", "sleepScreen", [i \in 1..k |-> "label"]) : k \in 1..MaxLabels}

HypotheticalValues ==
    {Value("Value", "screenMargin", [min |-> lo, max |-> hi, step |-> st]) :
        lo \in 0..MaxRange, hi \in 0..MaxRange, st \in 1..MaxStep}

HypotheticalLists ==
    {<<d>> : d \in {e \in HypotheticalEnums \cup HypotheticalValues :
                      ValidValues(e) # {}}}

ConfirmOnly == [NoInput EXCEPT !.confirm = TRUE]

InitConfirm ==
    /\ \/ /\ selectedCategoryIndex \in 0..(categoryCount - 1)
          /\ settingsList = CategoryList(selectedCategoryIndex)
          /\ settingsCount = CategoryCount(selectedCategoryIndex)
       \/ /\ selectedCategoryIndex = 0
          /\ settingsList \in HypotheticalLists
          /\ settingsCount = Len(settingsList)
    /\ selectedSettingIndex \in 1..settingsCount
    /\ Bound(settingsList[selectedSettingIndex])
    /\ \E v \in ValidValues(settingsList[selectedSettingIndex]) :
         SETTINGS =
           [LowSettings EXCEPT ![settingsList[selectedSettingIndex].valuePtr] = v]
    /\ loaded = SETTINGS
    /\ updateRequired = TRUE
    /\ subActivity = "none"
    /\ renderingMutex = "free"
    /\ displayTask = "L255"
    /\ saveCount = 0
    /\ confirmations = 0
    /\ mappedInput = NoInput
    /\ hasChangedCategory = FALSE
    /\ pc = "idle"
    /\ entry = NoEntry
    /\ emptyTables = {}
    /\ awaiting = FALSE
    /\ stale = TRUE

ConfirmCycle == confirmations < MaxConfirms /\ LoopBegin(ConfirmOnly)

NextConfirm ==
    \/ ConfirmCycle
    \/ ConfirmItem
    \/ SaveToFile
    \/ ConfirmItemUpdate
    \/ LoopEnd
    \/ DisplayTest
    \/ DisplayClear
    \/ DisplayTake
    \/ Render
    \/ DisplayGive

SpecConfirm == InitConfirm /\ [][NextConfirm]_vars

(***************************************************************************)
(* Properties.  A cycle of loop() is over when the logic thread is at      *)
(* line 180 (every return of a cycle that stays on the screen) or has      *)
(* called onGoHome(); mappedInput and entry then still hold the cycle's    *)
(* input events and the state it started from.                             *)
(***************************************************************************)
CycleReturned == pc = "L180"

Held == mappedInput.heldTime > 700

\* the cycle's input is plain directional navigation: no Confirm, no Back,
\* nothing held longer than 700 ms
PlainCycle == ~mappedInput.confirm /\ ~mappedInput.back /\ ~Held

\* the cycle's input is the held Up/Down gesture alone
GestureCycle ==
    /\ ~mappedInput.confirm /\ ~mappedInput.back
    /\ Held /\ (mappedInput.up \/ mappedInput.down)

\* C1: plain Up/Down/Left/Right keeps selectedSettingIndex in [0, count] and
\* moves it on a ring of size count+1 (Up/Left one step backward, Down/Right
\* one step forward), leaving the category and its list alone; between
\* cycles the index is always in [0, count].
C1_IndexRing ==
    /\ pc = "idle" => selectedSettingIndex \in 0..settingsCount
    /\ (CycleReturned /\ PlainCycle) =>
         /\ selectedSettingIndex \in 0..settingsCount
         /\ selectedCategoryIndex = entry.selectedCategoryIndex
         /\ settingsCount = entry.settingsCount
         /\ (Released(mappedInput) = 1 /\ (mappedInput.up \/ mappedInput.left)) =>
              selectedSettingIndex =
                (entry.selectedSettingIndex + settingsCount) % (settingsCount + 1)
         /\ (Released(mappedInput) = 1 /\ (mappedInput.down \/ mappedInput.right)) =>
              selectedSettingIndex =
                (entry.selectedSettingIndex + 1) % (settingsCount + 1)

\* C1 witness: in the Reader category, Up from the tab row lands on the last
\* item (index count = 9), and Right from the last item of Controls lands on
\* the tab row
C1_Witness ==
    /\ CycleReturned /\ PlainCycle
    /\ \/ /\ mappedInput.up
          /\ selectedCategoryIndex = 1
          /\ entry.selectedSettingIndex = 0
          /\ selectedSettingIndex = readerSettingsCount
       \/ /\ mappedInput.right
          /\ selectedCategoryIndex = 2
          /\ entry.selectedSettingIndex = controlsSettingsCount
          /\ selectedSettingIndex = 0

\* what Confirm on the tab row alone does to the navigation state
TabConfirmed ==
    /\ selectedCategoryIndex = (entry.selectedCategoryIndex + 1) % 4
    /\ settingsList = CategoryList(selectedCategoryIndex)
    /\ settingsCount = CategoryCount(selectedCategoryIndex)
    /\ selectedSettingIndex = 0

\* the logic thread is in, or past, the Back transition of this cycle
BackTaken == pc \in {"L132", "L99", "L100", "L104", "exited"}

\* C2: one transition per cycle, by priority confirm > back > category
\* gesture > directional navigation: with Confirm pressed, Back does not
\* fire and the navigation state ends as Confirm alone leaves it; with Back
\* pressed (and no Confirm) the navigation state is untouched; with the
\* gesture (and neither) the item focus is not moved by plain navigation.
C2_OneTransition ==
    /\ mappedInput.confirm => ~BackTaken
    /\ (CycleReturned /\ mappedInput.confirm /\ entry.selectedSettingIndex = 0) =>
         TabConfirmed
    /\ (CycleReturned /\ mappedInput.confirm /\ entry.selectedSettingIndex # 0) =>
         /\ selectedCategoryIndex = entry.selectedCategoryIndex
         /\ selectedSettingIndex = entry.selectedSettingIndex
    /\ (BackTaken /\ ~mappedInput.confirm) =>
         /\ selectedCategoryIndex = entry.selectedCategoryIndex
         /\ selectedSettingIndex = entry.selectedSettingIndex
         /\ saveCount = entry.saveCount + 1
    /\ (CycleReturned /\ GestureCycle) =>
         selectedSettingIndex = IF entry.selectedSettingIndex = 0 THEN 0 ELSE 1

\* C3: a cycle with Confirm pressed on the tab row ends with the next
\* category selected, its list and count bound, and focus on the tab row.
C3_ConfirmTab ==
    (CycleReturned /\ mappedInput.confirm /\ entry.selectedSettingIndex = 0) =>
        TabConfirmed

\* C4: Up or Down released after more than 700 ms (no Confirm, no Back) moves
\* the category circularly, rebinds list and count, and puts focus on the
\* tab row if it was there and on item 1 otherwise; held for 700 ms or less
\* the release leaves the category alone.
C4_HeldGesture ==
    /\ (CycleReturned /\ GestureCycle) =>
         /\ (mappedInput.up /\ ~mappedInput.down) =>
              selectedCategoryIndex = (entry.selectedCategoryIndex + 3) % 4
         /\ (mappedInput.down /\ ~mappedInput.up) =>
              selectedCategoryIndex = (entry.selectedCategoryIndex + 1) % 4
         /\ selectedCategoryIndex # entry.selectedCategoryIndex
         /\ settingsList = CategoryList(selectedCategoryIndex)
         /\ settingsCount = CategoryCount(selectedCategoryIndex)
         /\ selectedSettingIndex = IF entry.selectedSettingIndex = 0 THEN 0 ELSE 1
    /\ (CycleReturned /\ PlainCycle) =>
         /\ selectedCategoryIndex = entry.selectedCategoryIndex
         /\ settingsList = entry.settingsList
         /\ (mappedInput.up \/ mappedInput.down) =>
              selectedSettingIndex # entry.selectedSettingIndex

\* C4 witness: Up held 701 ms with item 3 of Display focused ends in System
\* (5 items) with item 1 focused
C4_Witness ==
    /\ CycleReturned /\ GestureCycle
    /\ mappedInput.up /\ mappedInput.heldTime = 701
    /\ entry.selectedCategoryIndex = 0
    /\ entry.selectedSettingIndex = 3
    /\ selectedCategoryIndex = 3
    /\ settingsCount = 5
    /\ selectedSettingIndex = 1

\* render() is executing: the display task is at line 258, holding the mutex
Drawing == displayTask = "L258"

\* C5: whenever render() runs, no sub-screen is active.
C5_NoRenderDuringSubActivity == Drawing => subActivity = "none"

\* C6: a draw in progress is never concurrent with teardown or with the
\* handoff of an action launch: the display task draws only while it holds
\* the rendering mutex, and the logic thread deletes the display task
\* (lines 100-103) and runs exitActivity/enterNewActivity (lines 207-211)
\* only while it holds the mutex itself.
C6_DrawExclusion ==
    /\ Drawing => renderingMutex = "display"
    /\ pc \in {"L100", "L207"} => (renderingMutex = "loop" /\ ~Drawing)
    /\ displayTask = "deleted" => pc \in {"L104", "exited"}

\* C6 witness: teardown is about to delete the display task while that task
\* is blocked on the mutex at line 257
C6_Witness ==
    /\ pc = "L100"
    /\ displayTask = "L257"
    /\ renderingMutex = "loop"

\* nothing is left to happen without new input: the logic thread is between
\* cycles of this screen, the display task has found the flag clear
Quiescent ==
    /\ pc = "idle"
    /\ subActivity = "none"
    /\ displayTask = "L255"
    /\ ~updateRequired

\* C7: every change made by a logic cycle is seen by a render pass: when
\* nothing is left to happen (flag clear, display task waiting, no
\* sub-screen), the display is not out of date.
C7_NoStaleDisplay == Quiescent => ~stale

\* the focused descriptor and the field it is bound to
Focused == settingsList[selectedSettingIndex]
FocusedField == Focused.valuePtr

\* C8: an Enum with k labels and value v in 0..k-1: one confirmation makes
\* the value (v + 1) mod k, again a valid label index, and k confirmations
\* bring back the value the screen was entered with.
C8_EnumCycle ==
    Focused.type = "ENUM" =>
        LET k == Len(Focused.enumValues)
        IN  /\ SETTINGS[FocusedField] \in 0..(k - 1)
            /\ CycleReturned =>
                 SETTINGS[FocusedField] = (entry.SETTINGS[FocusedField] + 1) % k
            /\ (pc = "idle" /\ confirmations = k) =>
                 SETTINGS[FocusedField] = loaded[FocusedField]

\* C8 witness: "Sleep Screen" (6 labels) entered at "Cover" (3) is back at 3
\* after 6 confirmations, having wrapped from 5 to 0 on the way
C8_Witness ==
    /\ pc = "idle"
    /\ Focused.name = "Sleep Screen"
    /\ confirmations = 6
    /\ loaded[FocusedField] = 3
    /\ SETTINGS[FocusedField] = 3

\* C9: a Value with range {min, max, step} and value v in min..max: one
\* confirmation makes the value v + step if that is at most max and min
\* otherwise; the value stays in min..max; and the confirmation number
\* (max - v) div step + 1 sets it to exactly min.
C9_ValueSawtooth ==
    Focused.type = "VALUE" =>
        LET r == Focused.valueRange
            was == entry.SETTINGS[FocusedField]
        IN  /\ SETTINGS[FocusedField] \in r.min..r.max
            /\ CycleReturned =>
                 SETTINGS[FocusedField] =
                   IF was + r.step <= r.max THEN was + r.step ELSE r.min
            /\ (pc = "idle"
                  /\ confirmations = ((r.max - loaded[FocusedField]) \div r.step) + 1) =>
                 SETTINGS[FocusedField] = r.min

\* C9 witness: "Screen Margin" (5..40 step 5) entered at 40 is 5 after one
\* confirmation
C9_Witness ==
    /\ pc = "idle"
    /\ confirmations = 1
    /\ Focused.name = "Screen Margin"
    /\ loaded[FocusedField] = 40
    /\ SETTINGS[FocusedField] = 5

\* a range whose span is no multiple of its step wraps to min from a value
\* below max
C9_UnevenRangeWraps ==
    /\ pc = "idle"
    /\ confirmations = 1
    /\ Focused.type = "VALUE"
    /\ (Focused.valueRange.max - Focused.valueRange.min)
          % Focused.valueRange.step # 0
    /\ loaded[FocusedField] < Focused.valueRange.max
    /\ loaded[FocusedField] > Focused.valueRange.min
    /\ SETTINGS[FocusedField] = Focused.valueRange.min

\* C10: a confirmation on a bound Toggle/Enum/Value item writes the new value,
\* then calls saveToFile exactly once, then marks the redraw flag; n
\* confirmations make n saveToFile calls.
C10_WriteSaveMark ==
    /\ [](pc = "idle" => saveCount = confirmations)
    /\ [][ /\ saveCount' # saveCount =>
                /\ saveCount' = saveCount + 1
                /\ saveCount = entry.saveCount
                /\ SETTINGS[FocusedField] =
                     NextValue(Focused, entry.SETTINGS[FocusedField])
           /\ (pc # "idle" /\ saveCount # entry.saveCount) => SETTINGS' = SETTINGS
           /\ (pc = "L125" /\ pc' # "L125") =>
                /\ saveCount = entry.saveCount + 1
                /\ updateRequired'
           /\ (pc # "idle" /\ pc # "L125") =>
                (updateRequired' => updateRequired)
         ]_vars

\* C10 witness: 6 confirmations on "Sleep Screen" have made 6 saveToFile calls
C10_Witness ==
    /\ pc = "idle"
    /\ Focused.name = "Sleep Screen"
    /\ confirmations = 6
    /\ saveCount = 6

\* the logic thread has called onGoHome() for this cycle's Back press
Exiting == pc \in {"L99", "L100", "L104", "exited"}

\* C11: a cycle that takes the Back transition calls saveToFile exactly once,
\* and before onGoHome(): the screen is never exiting, and is never about to
\* call onGoHome(), without exactly one save made in that cycle; and only a
\* Back press leads there.
C11_BackSavesOnce ==
    (pc = "L132" \/ Exiting) =>
        /\ mappedInput.back
        /\ saveCount = entry.saveCount + 1

\* C11 witness: the screen has exited through Back with the one save made
C11_Witness ==
    /\ pc = "exited"
    /\ mappedInput.back
    /\ saveCount = 1
    /\ displayTask = "deleted"

(***************************************************************************)
(* Sub-screen launches under fair scheduling: the screen is entered, focus *)
(* is on an Action item, and a cycle is a Confirm press or a Back press.   *)
(* FreeRTOS runs both the logic thread and the display task again and      *)
(* again (the display task polls every 10 ms, line 261), so a step of      *)
(* either that stays possible is eventually taken; a step that waits for   *)
(* the mutex is possible only while the mutex is free.  When the user      *)
(* presses a button and when a sub-screen completes is not scheduled.      *)
(***************************************************************************)
MaxLaunches == 1

BackOnly == [NoInput EXCEPT !.back = TRUE]

InitLaunch ==
    /\ selectedCategoryIndex \in 0..(categoryCount - 1)
    /\ settingsList = CategoryList(selectedCategoryIndex)
    /\ settingsCount = CategoryCount(selectedCategoryIndex)
    /\ selectedSettingIndex \in 1..settingsCount
    /\ settingsList[selectedSettingIndex].type = "ACTION"
    /\ SETTINGS = LowSettings
    /\ loaded = SETTINGS
    /\ updateRequired = TRUE
    /\ subActivity = "none"
    /\ renderingMutex = "free"
    /\ displayTask = "L255"
    /\ saveCount = 0
    /\ confirmations = 0
    /\ mappedInput = NoInput
    /\ hasChangedCategory = FALSE
    /\ pc = "idle"
    /\ entry = NoEntry
    /\ emptyTables = {}
    /\ awaiting = FALSE
    /\ stale = TRUE

LaunchCycle ==
    \/ confirmations < MaxLaunches /\ LoopBegin(ConfirmOnly)
    \/ LoopBegin(BackOnly)

\* the steps of the logic thread that need no event from outside
LogicStep ==
    \/ ConfirmItem
    \/ ActionTake
    \/ ActionEnter
    \/ ActionGive
    \/ SaveToFile
    \/ ConfirmItemUpdate
    \/ BackSave
    \/ GoHome
    \/ LoopEnd
    \/ CallbackUpdate
    \/ ExitTake
    \/ ExitDeleteTask
    \/ ExitDeleteMutex

DisplayStep ==
    \/ DisplayTest
    \/ DisplayClear
    \/ DisplayTake
    \/ Render
    \/ DisplayGive

NextLaunch ==
    \/ LaunchCycle
    \/ CallbackExit
    \/ LogicStep
    \/ DisplayStep

SpecLaunch ==
    /\ InitLaunch
    /\ [][NextLaunch]_vars
    /\ WF_vars(LogicStep)
    /\ WF_vars(DisplayStep)

\* C12 as stated: after every sub-screen completion the settings screen is
\* rendered again.  The display task can render only while it exists, so a
\* completion followed by a render is never still awaited once the display
\* task has been deleted.
C12_RenderedAfterEveryCompletion == displayTask = "deleted" => ~awaiting

\* C12, amended: a sub-screen is entered only while the logic thread holds
\* the rendering lock, which it then releases; the completion callback
\* removes the sub-screen and then sets the redraw flag; and under fair
\* scheduling every completion is followed by a render pass, unless the
\* screen is exited (the display task deleted) or another sub-screen is
\* launched before the display task gets to it.
C12_LaunchLockAndRedraw ==
    /\ [][(subActivity = "none" /\ subActivity' # "none") =>
            (renderingMutex = "loop" /\ renderingMutex' = "loop")]_vars
    /\ [](pc = "L212" => (renderingMutex = "loop" /\ subActivity # "none"))
    /\ (pc = "L212") ~> (renderingMutex # "loop")
    /\ [][(subActivity # "none" /\ subActivity' = "none") =>
            (pc' = "L210" /\ awaiting')]_vars
    /\ [][(pc = "L210" /\ pc' # "L210") => updateRequired']_vars
    /\ awaiting ~> (~awaiting \/ displayTask = "deleted" \/ subActivity # "none")

\* C12 witness: a sub-screen has completed, the callback has set the flag,
\* and the display task is drawing the settings screen again
C12_Witness ==
    /\ awaiting
    /\ subActivity = "none"
    /\ pc = "idle"
    /\ saveCount = 1
    /\ displayTask = "L258"

\* C13: on a Toggle item one confirmation stores the negation of the bound
\* field (0 <-> 1), and two consecutive confirmations restore the value the
\* field had before them.
C13_ToggleInvolution ==
    Focused.type = "TOGGLE" =>
        /\ CycleReturned =>
             SETTINGS[FocusedField] = 1 - entry.SETTINGS[FocusedField]
        /\ (pc = "idle" /\ confirmations = 1) =>
             SETTINGS[FocusedField] = 1 - loaded[FocusedField]
        /\ (pc = "idle" /\ confirmations = 2) =>
             SETTINGS[FocusedField] = loaded[FocusedField]

\* C13 witness: a Toggle that was on has been confirmed twice and is on again
C13_Witness ==
    /\ Focused.type = "TOGGLE"
    /\ pc = "idle"
    /\ confirmations = 2
    /\ loaded[FocusedField] = 1
    /\ SETTINGS[FocusedField] = 1

\* C14: whenever the display task is inside render(), where it reads the
\* navigation state, the bound list and count are those of the selected
\* category and the focus index lies in 0..settingsCount, whatever the logic
\* thread is doing at that moment.
C14_RenderReadsConsistentState ==
    Drawing =>
        /\ settingsList = CategoryList(selectedCategoryIndex)
        /\ settingsCount = CategoryCount(selectedCategoryIndex)
        /\ selectedSettingIndex \in 0..settingsCount

\* the display task has drawn (line 258 is done, line 259 not yet) and no
\* mutation has set the flag since this pass observed and cleared it
PassConsumedAllRequests == displayTask = "L259" /\ ~updateRequired

\* C15: redraw requests coalesce into the one flag, and the render pass made
\* for an observation of the flag shows the state after the last mutation
\* that set it: when a pass has drawn, no request has been made since its
\* observation, and the logic thread has finished its cycle, the display
\* shows the current state.
C15_PassShowsLastMutation ==
    (PassConsumedAllRequests /\ pc \in {"idle", "L180"}) => ~stale

(***************************************************************************)
(* The defensive branches of toggleCurrentSetting().  The tables of lines  *)
(* 20-64 never lead to them, so the screen is entered in states that other *)
(* tables or an index error would produce: a focus index past the count    *)
(* (the count cut short of the array, so that the array holds a descriptor *)
(* at the focused position), a Toggle, Enum or Value descriptor bound to   *)
(* no field, and an Action whose name the strcmp chain does not know.      *)
(* Every cycle is a Confirm press.                                         *)
(***************************************************************************)
UnboundDescriptors ==
    {Toggle("Toggle", "nullptr"),
     Enum("Enum", "nullptr", <<"label", "label">>),
     Value("Value", "nullptr", [min |-> 5, max |-> 40, step |-> 5])}

UnknownActions == {Action("Unknown Action")}

InitDefensive ==
    /\ \/ /\ selectedCategoryIndex \in 0..(categoryCount - 1)
          /\ settingsList = CategoryList(selectedCategoryIndex)
          /\ settingsCount \in 0..(Len(settingsList) - 1)
          /\ selectedSettingIndex \in (settingsCount + 1)..Len(settingsList)
       \/ /\ selectedCategoryIndex = 0
          /\ settingsList \in {<<d>> : d \in UnboundDescriptors \cup UnknownActions}
          /\ settingsCount = 1
          /\ selectedSettingIndex = 1
    /\ SETTINGS = LowSettings
    /\ loaded = SETTINGS
    /\ updateRequired = TRUE
    /\ subActivity = "none"
    /\ renderingMutex = "free"
    /\ displayTask = "L255"
    /\ saveCount = 0
    /\ confirmations = 0
    /\ mappedInput = NoInput
    /\ hasChangedCategory = FALSE
    /\ pc = "idle"
    /\ entry = NoEntry
    /\ emptyTables = {}
    /\ awaiting = FALSE
    /\ stale = TRUE

SpecDefensive == InitDefensive /\ [][NextConfirm]_vars

\* the three local error cases of a confirmation
IndexOutOfBounds ==
    selectedSettingIndex - 1 < 0 \/ selectedSettingIndex - 1 >= settingsCount

UnboundFocused ==
    /\ ~IndexOutOfBounds
    /\ Focused.type \in {"TOGGLE", "ENUM", "VALUE"}
    /\ Focused.valuePtr = "nullptr"

UnknownActionFocused ==
    /\ ~IndexOutOfBounds
    /\ Focused.type = "ACTION"
    /\ Focused.name \notin KnownActions

ErrorCase == IndexOutOfBounds \/ UnboundFocused \/ UnknownActionFocused

\* C16: a confirmation in one of the three local error cases is a no-op: no
\* setting value changes, no sub-screen is launched, the rendering lock is
\* not taken by the logic thread, and category and focus stay as they were.
C16_ErrorCasesAreNoOps ==
    /\ [](ErrorCase =>
            /\ SETTINGS = loaded
            /\ subActivity = "none"
            /\ renderingMutex # "loop"
            /\ pc \notin {"L206", "L207", "L212"})
    /\ [][ErrorCase =>
            /\ UNCHANGED <<selectedCategoryIndex, selectedSettingIndex,
                           settingsList, settingsCount>>
            /\ UNCHANGED <<SETTINGS, subActivity>>
            /\ renderingMutex' # "loop"]_vars

\* C16 witness: a confirmation with the focus index past the count has
\* returned
C16_Witness ==
    /\ IndexOutOfBounds
    /\ selectedSettingIndex = settingsCount + 1
    /\ Bound(settingsList[selectedSettingIndex])
    /\ CycleReturned
    /\ mappedInput.confirm
    /\ SETTINGS = loaded
    /\ saveCount = 0

\* the other two error cases, confirmed and returned
C16_UnboundConfirmed ==
    UnboundFocused /\ CycleReturned /\ mappedInput.confirm /\ saveCount = 0

C16_UnknownActionConfirmed ==
    UnknownActionFocused /\ CycleReturned /\ mappedInput.confirm /\ saveCount = 1

(***************************************************************************)
(* The whole screen over a build in which one category has no descriptor   *)
(* (count == 0), a case the tables of lines 20-64 do not contain.          *)
(***************************************************************************)
InitEmpty ==
    /\ emptyTables \in {{c} : c \in 0..(categoryCount - 1)}
    /\ selectedCategoryIndex = 0
    /\ selectedSettingIndex = 0
    /\ settingsList = BuiltList(0, emptyTables)
    /\ settingsCount = BuiltCount(0, emptyTables)
    /\ updateRequired = TRUE
    /\ subActivity = "none"
    /\ renderingMutex = "free"
    /\ displayTask = "L255"
    /\ SETTINGS = LowSettings
    /\ loaded = SETTINGS
    /\ saveCount = 0
    /\ confirmations = 0
    /\ mappedInput = NoInput
    /\ hasChangedCategory = FALSE
    /\ pc = "idle"
    /\ entry = NoEntry
    /\ awaiting = FALSE
    /\ stale = TRUE

\* a Confirm on an item of an empty category saves nothing (line 185), so
\* the confirmations are bounded by themselves
MaxEmptyConfirms == 1

EmptyCycle ==
    \E inp \in Inputs :
        /\ saveCount < MaxSaves
        /\ confirmations < MaxEmptyConfirms
        /\ LoopBegin(inp)

NextEmpty ==
    \/ EmptyCycle
    \/ ConfirmTab
    \/ ConfirmTabUpdate
    \/ ConfirmItem
    \/ ActionTake
    \/ ActionEnter
    \/ ActionGive
    \/ SaveToFile
    \/ ConfirmItemUpdate
    \/ BackSave
    \/ GoHome
    \/ ChangeTab
    \/ NavigateItem
    \/ NavigationUpdate
    \/ NoNavigation
    \/ ResetIndex
    \/ BindList
    \/ BindCount
    \/ LoopEnd
    \/ CallbackExit
    \/ CallbackUpdate
    \/ ExitTake
    \/ ExitDeleteTask
    \/ ExitDeleteMutex
    \/ DisplayTest
    \/ DisplayClear
    \/ DisplayTake
    \/ Render
    \/ DisplayGive

SpecEmpty == InitEmpty /\ [][NextEmpty]_vars

\* the cycle's input is Confirm alone
ConfirmAlone ==
    /\ mappedInput.confirm /\ ~mappedInput.back
    /\ Released(mappedInput) = 0

ItemConfirmed == mappedInput.confirm /\ entry.selectedSettingIndex # 0

\* C18: throughout a cycle that confirms a focused item i, category, focus
\* index, list and count stay as they were, no field of the store other than
\* the one bound to descriptor i-1 changes, and the cycle never reaches the
\* Back branch or the navigation chain, whatever else was pressed.
C18_ConfirmItemFrame ==
    ItemConfirmed =>
        /\ selectedCategoryIndex = entry.selectedCategoryIndex
        /\ selectedSettingIndex = entry.selectedSettingIndex
        /\ settingsList = entry.settingsList
        /\ settingsCount = entry.settingsCount
        /\ \A f \in Fields :
             f # entry.settingsList[entry.selectedSettingIndex].valuePtr =>
                SETTINGS[f] = entry.SETTINGS[f]
        /\ ~BackTaken
        /\ pc \notin {"L130", "L146", "L153", "L160", "L163", "L164"}
        /\ ~hasChangedCategory

\* C18 witness: item 2 of Display was confirmed with Back pressed and Down
\* released after a long hold in the same cycle; the cycle is over, the
\* item's field is changed, focus is where it was
C18_Witness ==
    /\ CycleReturned
    /\ ItemConfirmed
    /\ mappedInput.back /\ mappedInput.down /\ Held
    /\ selectedCategoryIndex = 0
    /\ selectedSettingIndex = 2
    /\ SETTINGS[FocusedField] # entry.SETTINGS[FocusedField]

\* a cycle is running and it did not begin with Confirm on a focused item:
\* whatever it does is directional navigation, a category change or Back
NavigatingCycle == entry.active /\ ~ItemConfirmed

\* C19: navigation never touches settings: in a cycle of directional
\* navigation or category change (Confirm on the tab row, held gesture) the
\* store stays as it was at the cycle's start, no sub-screen is launched and,
\* short of the Back transition, nothing is saved; and a setting value
\* changes only in the step that confirms a focused item.
C19_NavigationLeavesSettings ==
    /\ [](NavigatingCycle =>
            /\ SETTINGS = entry.SETTINGS
            /\ subActivity = "none"
            /\ pc \notin {"L206", "L207", "L212", "L250"}
            /\ ~BackTaken => saveCount = entry.saveCount)
    /\ [][SETTINGS' # SETTINGS => (ItemConfirmed /\ pc = "L118")]_vars

\* C19 witness: Down held 701 ms with item 2 of Reader focused has changed
\* the category to Controls; the store is as it was and nothing was saved
C19_Witness ==
    /\ CycleReturned /\ GestureCycle
    /\ mappedInput.down
    /\ entry.selectedCategoryIndex = 1
    /\ entry.selectedSettingIndex = 2
    /\ selectedCategoryIndex = 2
    /\ selectedSettingIndex = 1
    /\ SETTINGS = entry.SETTINGS
    /\ saveCount = 0
    /\ subActivity = "none"

\* C20: the rendering mutex never blocks the logic thread forever.  The
\* display task and an action launch release what they acquire; under fair
\* scheduling a launch waiting for the mutex enters its sub-screen, and
\* onExit waiting for the mutex acquires it and completes the teardown
\* (display task and mutex deleted).
C20_MutexNeverBlocksForever ==
    /\ (renderingMutex = "display") ~> (renderingMutex = "free")
    /\ [][(renderingMutex = "display" /\ renderingMutex' # "display") =>
            (renderingMutex' = "free" /\ displayTask' = "L255")]_vars
    /\ (renderingMutex = "loop" /\ pc = "L207") ~>
         (renderingMutex = "free" /\ pc = "L250")
    /\ (pc = "L206") ~> (pc = "L212" /\ subActivity # "none")
    /\ (pc = "L99") ~> (pc = "L100" /\ renderingMutex = "loop")
    /\ (pc = "L99") ~>
         (pc = "exited" /\ displayTask = "deleted" /\ renderingMutex = "deleted")

\* C20 witness: an action launch is waiting for the mutex while the display
\* task holds it inside render()
C20_Witness ==
    /\ pc = "L206"
    /\ renderingMutex = "display"
    /\ displayTask = "L258"

\* the same for onExit: Back was pressed while the display task holds the
\* mutex
C20_ExitWaits ==
    /\ pc = "L99"
    /\ renderingMutex = "display"

====
